---- MODULE Spec2Model ----
(***************************************************************************)
(* Model of src/audio.rs: one AudioCable, i.e. one mpsc channel of f32     *)
(* samples, one AudioProducer (decode thread) and one AudioConsumer (cpal  *)
(* output callback).                                                       *)
(***************************************************************************)
EXTENDS Integers, Sequences, FiniteSets, TLC

(***************************************************************************)
(* Bounds of the model.                                                    *)
(***************************************************************************)
\* longest item sequence the decoder yields
MaxItems == 2
\* longest output buffer the driver hands to the callback
MaxBuf == 2
\* clock resolution: ticks of blocked time per millisecond
TicksPerMs == 2
\* longest source identifier given to from_local alone, in pieces
MaxPieces == 4

(***************************************************************************)
(* f32 values.  A finite f32 is <<m, e>>, meaning m * 2^e, normalised: m   *)
(* is odd, or m = 0 and e = 0; |m| < 2^24 (24 bits of significand).        *)
(***************************************************************************)
RECURSIVE Pow2(_)
Pow2(n) == IF n = 0 THEN 1 ELSE 2 * Pow2(n - 1)

Abs(n) == IF n < 0 THEN -n ELSE n

Sgn(n) == IF n < 0 THEN -1 ELSE 1

RECURSIVE BitLen(_)
BitLen(n) == IF n = 0 THEN 0 ELSE 1 + BitLen(n \div 2)

RECURSIVE F32Normalize(_, _)
F32Normalize(m, e) ==
    IF m = 0 THEN <<0, 0>>
    ELSE IF m % 2 = 0 THEN F32Normalize(m \div 2, e + 1)
    ELSE <<m, e>>

\* the f32 nearest to n * 2^e0 (round to nearest, ties to even)
F32Round(n, e0) ==
    LET a == Abs(n)
        sh == BitLen(a) - 24
    IN  IF sh <= 0 THEN F32Normalize(n, e0)
        ELSE LET q == a \div Pow2(sh)
                 r == a % Pow2(sh)
                 half == Pow2(sh - 1)
                 up == r > half \/ (r = half /\ q % 2 = 1)
             IN  F32Normalize(Sgn(n) * (IF up THEN q + 1 ELSE q), e0 + sh)

\* `x as f32` for an i32 x
I32AsF32(x) == F32Round(x, 0)

\* a / b for a divisor that is a power of two (exact)
F32DivPow2(a, b) == F32Normalize(a[1], a[2] - b[2])

\* a * b, for significands whose product fits the model's integers
F32Mul(a, b) == F32Round(a[1] * b[1], a[2] + b[2])

F32Zero == <<0, 0>>

I32Max == 2147483647

\* the literal 160.0
Gain == F32Round(160, 0)

\* (sample as f32) / (std::i32::MAX as f32) * 160.0
Scale(sample) == F32Mul(F32DivPow2(I32AsF32(sample), I32AsF32(I32Max)), Gain)

(***************************************************************************)
(* Decoder items: Result<i32>, as <<"Ok", v>> or <<"Err", 0>>.             *)
(***************************************************************************)
SampleVals == {-8388607, I32Max}

ItemVals == {<<"Err", 0>>} \cup {<<"Ok", v>> : v \in SampleVals}

RECURSIVE SeqsUpTo(_, _)
SeqsUpTo(S, n) ==
    IF n = 0 THEN {<<>>}
    ELSE LET shorter == SeqsUpTo(S, n - 1)
         IN  shorter \cup {Append(s, x) : s \in {t \in shorter : Len(t) = n - 1}, x \in S}

ItemSeqs == SeqsUpTo(ItemVals, MaxItems)

\* sample.unwrap_or(0)
UnwrapSample(item) == IF item[1] = "Ok" THEN item[2] ELSE 0

\* the value the decode task enqueues for each decoder item (tabulated once)
ScaledTable == [item \in ItemVals |-> Scale(UnwrapSample(item))]

\* let s = (sample.unwrap_or(0) as f32) / (std::i32::MAX as f32) * 160.0
Scaled(item) == ScaledTable[item]

\* the scaled value of a sample that is 0
ScaleOfZero == Scale(0)

ScaledSeq(its) == [i \in 1..Len(its) |-> Scaled(its[i])]

(***************************************************************************)
(* SourceType::from_local.  A String is a sequence of one-character        *)
(* strings.                                                                *)
(***************************************************************************)
RECURSIVE SplitMut(_, _)
SplitMut(s, c) ==
    IF \E i \in 1..Len(s) : s[i] = c
    THEN LET i == CHOOSE k \in 1..Len(s) : s[k] = c /\ \A j \in 1..(k - 1) : s[j] # c
         IN  <<SubSeq(s, 1, i - 1)>> \o SplitMut(SubSeq(s, i + 1, Len(s)), c)
    ELSE IF s = <<>> THEN <<>> ELSE <<s>>

\* file.split("."): the segments between the dots, empty ones included
RECURSIVE Split(_, _)
Split(s, c) ==
    IF \E i \in 1..Len(s) : s[i] = c
    THEN LET i == CHOOSE k \in 1..Len(s) : s[k] = c /\ \A j \in 1..(k - 1) : s[j] # c
         IN  <<SubSeq(s, 1, i - 1)>> \o Split(SubSeq(s, i + 1, Len(s)), c)
    ELSE <<s>>

LowerCharMut(c) == c
LowerChar(c) ==
    CASE c = "F" -> "f"
      [] c = "L" -> "l"
      [] c = "A" -> "a"
      [] c = "C" -> "c"
      [] c = "X" -> "x"
      [] OTHER -> c

ToLowercase(s) == [i \in 1..Len(s) |-> LowerChar(s[i])]

\* split.next().expect("empty string provided for audio source."): split() yields at
\* least one segment for every string, the empty one included, so this never panics
FirstSegmentOkMut(seg) == seg # <<>>
FirstSegmentOk(seg) == TRUE

\* split.next().expect("source audio file has no file extension."): no second segment
NoExtensionOutcomeMut == "SOURCELESS"
NoExtensionOutcome == "PANIC"

\* "PANIC" stands for the panic of either expect()
from_local(file) ==
    LET split == Split(file, ".")
    IN  IF Len(split) < 1 \/ ~FirstSegmentOk(split[1]) THEN "PANIC"
        ELSE IF Len(split) < 2 THEN NoExtensionOutcome
        ELSE LET file_extension == ToLowercase(split[2])
             IN  IF file_extension = <<"f", "l", "a", "c">> THEN "FLAC"
                 ELSE IF file_extension = <<>> THEN "SOURCELESS"
                 ELSE "UNSUPPORTED"

\* the source identifiers AudioCable::new is called with
Files == { <<"a", ".", "f", "l", "a", "c">>,
           <<"a", ".", "F", "l", "A", "c">>,
           <<"a", ".">>,
           <<"a", ".", "x">>,
           <<"a">> }

\* the source identifiers from_local is checked on by itself: every concatenation of
\* at most MaxPieces pieces
Pieces == { <<"a">>, <<".">>, <<"/">>, <<"x">>,
            <<"f", "l", "a", "c">>, <<"F", "l", "A", "C">> }

RECURSIVE Flatten(_)
Flatten(ps) == IF ps = <<>> THEN <<>> ELSE Head(ps) \o Flatten(Tail(ps))

Ids == {Flatten(ps) : ps \in SeqsUpTo(Pieces, MaxPieces)}

(***************************************************************************)
(* State.                                                                  *)
(***************************************************************************)
VARIABLES
    file,           \* audio_source, the argument of AudioCable::new
    pcMain,         \* position of the caller: "start", "producer", "constructed",
                    \* "dropping", "dropped", "aborted"
    abortCause,     \* which expect() panicked the caller: "none", "source", "device"
    source_type,    \* AudioProducer.source_type: "unset", "FLAC", "SOURCELESS", "UNSUPPORTED"
    producerAlive,  \* the AudioProducer value (its Arc of the Sender) exists
    preQueued,      \* history: how many values were in the channel when the callback
                    \* was registered (AudioConsumer::new returned)
    rxAlive,        \* the mpsc::Receiver has not been dropped
    thread,         \* AudioProducer.thread and the decode task's position: "none",
                    \* "spawned", "opened", "loop", "done", "panicked"
    threadPanic,    \* why the decode task panicked: "none", "no file", "lock", "sample",
                    \* "send"
    txLock,         \* Mutex around the Sender: "free", "held", "poisoned"
    rxLock,         \* Mutex around the Receiver: "free", "held", "poisoned"
    items,          \* what reader.samples() yields, fixed when the file is opened
    pos,            \* number of decoder items the loop has taken
    queue,          \* content of the channel
    sent,           \* history: every value send() accepted, in order
    delivered,      \* history: every value written to a slot from a successful receive
    cb,             \* the callback: "idle", "loop", "panicked"
    bufLen,         \* data.len() of the current (or last) invocation
    data,           \* the slots written so far in the current (or last) invocation
    slotWait,       \* ticks the current recv_timeout has been blocked
    waited,         \* ticks the current (or last) invocation has been blocked in total
    lastWrite,      \* how the last slot was filled: "none", "recv", "timeout", "disconnected"
    other           \* the channel of a second AudioCable, alive next to this one: its
                    \* content (queue) and the histories of its two ends (sent, delivered)

vars == <<file, pcMain, abortCause, source_type, producerAlive, preQueued, rxAlive, thread,
          threadPanic, txLock, rxLock, items, pos, queue, sent, delivered, cb,
          bufLen, data, slotWait, waited, lastWrite, other>>

mainVars == <<file, pcMain, abortCause, source_type, producerAlive, preQueued, other>>
threadVars == <<thread, threadPanic, txLock, items, pos>>
cbVars == <<rxLock, cb, bufLen, data, slotWait, waited, lastWrite>>

\* Duration::from_millis(1)
RecvTimeoutMsMut == 1 + 1
RecvTimeoutMs == 1

Deadline == RecvTimeoutMs * TicksPerMs

\* recv_timeout gives up once the deadline has passed
TimedOutMut(w) == FALSE
TimedOut(w) == w >= Deadline

\* the Sender is owned by the Arc shared between the AudioProducer and the closure of
\* the decode task; it lives while either does
txAliveMut == thread \in {"spawned", "opened", "loop"}
txAlive == producerAlive \/ thread \in {"spawned", "opened", "loop"}

\* the output stream (and with it the callback) exists
streamAlive == pcMain \in {"constructed", "dropping"}

\* std::sync::mpsc::channel(): unbounded, send never waits for room
SendBlocksMut(q) == Len(q) >= 1
SendBlocks(q) == FALSE

\* sample.unwrap_or(0) never panics on a decode error
UnwrapPanicsMut(item) == item[1] = "Err"
UnwrapPanics(item) == FALSE

\* the for loop takes the items one by one
AdvanceMut(p) == p + 2
Advance(p) == p + 1

\* data_channel.send(s).unwrap(): an Err of send (the Receiver is gone) panics
SendErrPanicsMut == FALSE
SendErrPanics == TRUE

\* recv_timeout(..).unwrap_or(0.0f32): an Err of the receive never panics
RecvErrPanicsMut == TRUE
RecvErrPanics == FALSE

\* the two channel ends sit behind two different Mutexes: lock() on one waits only
\* for a holder of that one
TxLockFree == txLock # "held"
RxLockFreeMut == rxLock # "held" /\ txLock # "held"
RxLockFree == rxLock # "held"

\* data_channel.send(s) on a connected channel
EnqueueMut(q, s) == <<s>> \o q
Enqueue(q, s) == Append(q, s)

\* std::sync::mpsc::channel() in AudioCable::new: every Cable ("this", "other") makes
\* a channel of its own and hands both ends to its own producer and consumer
ChannelOfMut(cable) == "this"
ChannelOf(cable) == cable

\* AudioConsumer::new(rx) moves the Receiver of the channel made in AudioCable::new:
\* the channel keeps what was sent before the move
MovedReceiverMut(q) == <<>>
MovedReceiver(q) == q

\* what a successful recv_timeout returns, and what it leaves in the channel
RecvValue(q) == Head(q)
RecvRestMut(q) == IF Len(q) > 1 THEN Tail(Tail(q)) ELSE Tail(q)
RecvRest(q) == Tail(q)

\* unwrap_or(0.0f32)
SilenceValueMut == F32Round(1, 0)
SilenceValue == F32Zero

\* cpal::Sample::from(&s): the callback takes data: &mut [f32], so the stream is built
\* for f32 output whatever the device format, and f32 -> f32 keeps the value
ToDeviceSample(s) == F32Normalize(s[1], s[2])

\* the state before AudioCable::new has done anything
InitOthers ==
    /\ pcMain = "start"
    /\ abortCause = "none"
    /\ source_type = "unset"
    /\ producerAlive = FALSE
    /\ preQueued = 0
    /\ rxAlive = TRUE
    /\ thread = "none"
    /\ threadPanic = "none"
    /\ txLock = "free"
    /\ rxLock = "free"
    /\ items = <<>>
    /\ pos = 0
    /\ queue = <<>>
    /\ sent = <<>>
    /\ delivered = <<>>
    /\ cb = "idle"
    /\ bufLen = 0
    /\ data = <<>>
    /\ slotWait = 0
    /\ waited = 0
    /\ lastWrite = "none"
    /\ other = [queue |-> <<>>, sent |-> <<>>, delivered |-> <<>>]

Init == file \in Files /\ InitOthers

\* from_local by itself, on every identifier of Ids
InitClassify == file \in Ids /\ InitOthers

(***************************************************************************)
(* The caller: AudioCable::new and the drop of the AudioCable.             *)
(***************************************************************************)
\* <AudioProducer as LocalAudioProducer>::new(audio_source, tx), connect() included
SpawnsThreadMut(k) == k # "UNSUPPORTED"
SpawnsThread(k) == k = "FLAC"

NewProducer ==
    /\ pcMain = "start"
    /\ LET k == from_local(file)
       IN  IF k = "PANIC"
           THEN /\ pcMain' = "aborted"
                /\ abortCause' = "source"
                /\ rxAlive' = FALSE
                /\ UNCHANGED <<source_type, producerAlive, thread>>
           ELSE /\ pcMain' = "producer"
                /\ source_type' = k
                /\ producerAlive' = TRUE
                /\ thread' = IF SpawnsThread(k) THEN "spawned" ELSE "none"
                /\ UNCHANGED <<abortCause, rxAlive>>
    /\ UNCHANGED <<file, other, preQueued, threadPanic, txLock, items, pos, queue, sent, delivered>>
    /\ UNCHANGED cbVars

\* AudioConsumer::new(rx), connect() included: the device lookups may panic; the
\* Receiver is moved into the closure with whatever the channel holds
NewConsumer ==
    /\ pcMain = "producer"
    /\ \E deviceOk \in BOOLEAN :
         IF deviceOk
         THEN /\ pcMain' = "constructed"
              /\ queue' = MovedReceiver(queue)
              /\ preQueued' = Len(queue)
              /\ UNCHANGED <<abortCause, producerAlive, rxAlive>>
         ELSE /\ pcMain' = "aborted"
              /\ abortCause' = "device"
              /\ producerAlive' = FALSE
              /\ rxAlive' = FALSE
              /\ UNCHANGED <<queue, preQueued>>
    /\ UNCHANGED <<file, other, source_type, sent, delivered>>
    /\ UNCHANGED threadVars
    /\ UNCHANGED cbVars

\* drop of AudioCable.data_source (fields drop in declaration order); the JoinHandle
\* is dropped without a join, the decode task is detached
DropProducer ==
    /\ pcMain = "constructed"
    /\ pcMain' = "dropping"
    /\ producerAlive' = FALSE
    /\ UNCHANGED <<file, other, abortCause, source_type, preQueued, rxAlive, queue, sent, delivered>>
    /\ UNCHANGED threadVars
    /\ UNCHANGED cbVars

\* drop of AudioCable.data_destination: the stream stops between invocations and the
\* closure, the last owner of the Receiver, is dropped
DropConsumer ==
    /\ pcMain = "dropping"
    /\ cb # "loop"
    /\ pcMain' = "dropped"
    /\ rxAlive' = FALSE
    /\ UNCHANGED <<file, other, abortCause, source_type, producerAlive, preQueued, queue, sent, delivered>>
    /\ UNCHANGED threadVars
    /\ UNCHANGED cbVars

(***************************************************************************)
(* The decode task (the closure given to std::thread::spawn).              *)
(***************************************************************************)
\* claxon::FlacReader::open(flac_file).expect("no file."); reader.samples()
Open ==
    /\ thread = "spawned"
    /\ \E ok \in BOOLEAN :
         IF ok
         THEN /\ \E its \in ItemSeqs : items' = its
              /\ thread' = "opened"
              /\ UNCHANGED threadPanic
         ELSE /\ thread' = "panicked"
              /\ threadPanic' = "no file"
              /\ UNCHANGED items
    /\ UNCHANGED <<txLock, pos, rxAlive, queue, sent, delivered>>
    /\ UNCHANGED mainVars
    /\ UNCHANGED cbVars

\* (*tx_channel).lock()
LockTx ==
    /\ thread = "opened"
    /\ TxLockFree
    /\ IF txLock = "poisoned"
       THEN /\ thread' = "panicked"
            /\ threadPanic' = "lock"
            /\ UNCHANGED txLock
       ELSE /\ thread' = "loop"
            /\ txLock' = "held"
            /\ UNCHANGED threadPanic
    /\ UNCHANGED <<items, pos, rxAlive, queue, sent, delivered>>
    /\ UNCHANGED mainVars
    /\ UNCHANGED cbVars

\* one iteration of `for sample in samples`: scale and data_channel.send(s).unwrap()
SendNext ==
    /\ thread = "loop"
    /\ pos < Len(items)
    /\ ~SendBlocks(queue)
    /\ IF UnwrapPanics(items[pos + 1])
       THEN /\ thread' = "panicked"
            /\ threadPanic' = "sample"
            /\ txLock' = "poisoned"
            /\ UNCHANGED <<queue, sent, pos>>
       ELSE IF rxAlive
       THEN /\ queue' = Enqueue(queue, Scaled(items[pos + 1]))
            /\ sent' = Append(sent, Scaled(items[pos + 1]))
            /\ pos' = Advance(pos)
            /\ UNCHANGED <<thread, threadPanic, txLock>>
       ELSE IF SendErrPanics
       THEN /\ thread' = "panicked"
            /\ threadPanic' = "send"
            /\ txLock' = "poisoned"
            /\ UNCHANGED <<queue, sent, pos>>
       ELSE /\ pos' = Advance(pos)
            /\ UNCHANGED <<queue, sent, thread, threadPanic, txLock>>
    /\ UNCHANGED <<items, rxAlive, delivered>>
    /\ UNCHANGED mainVars
    /\ UNCHANGED cbVars

\* the iterator is exhausted: the closure returns, the guard unlocks
ThreadExit ==
    /\ thread = "loop"
    /\ pos = Len(items)
    /\ thread' = "done"
    /\ txLock' = "free"
    /\ UNCHANGED <<threadPanic, items, pos, rxAlive, queue, sent, delivered>>
    /\ UNCHANGED mainVars
    /\ UNCHANGED cbVars

DecodeTask == Open \/ LockTx \/ SendNext \/ ThreadExit

(***************************************************************************)
(* The output callback (the closure clu), invoked by the driver.           *)
(***************************************************************************)
\* the driver invokes clu with a buffer of at least one slot; (*data_channel_arc).lock()
CallbackEnter ==
    /\ streamAlive
    /\ cb = "idle"
    /\ RxLockFree
    /\ \E n \in 1..MaxBuf :
         IF rxLock = "poisoned"
         THEN /\ cb' = "panicked"
              /\ UNCHANGED <<rxLock, bufLen, data, slotWait, waited>>
         ELSE /\ cb' = "loop"
              /\ rxLock' = "held"
              /\ bufLen' = n
              /\ data' = <<>>
              /\ slotWait' = 0
              /\ waited' = 0
    /\ UNCHANGED <<lastWrite, rxAlive, queue, sent, delivered>>
    /\ UNCHANGED mainVars
    /\ UNCHANGED threadVars

\* recv_timeout returns Ok(s): the slot gets the received value
RecvOk ==
    /\ cb = "loop"
    /\ Len(data) < bufLen
    /\ queue # <<>>
    /\ data' = Append(data, ToDeviceSample(RecvValue(queue)))
    /\ delivered' = Append(delivered, ToDeviceSample(RecvValue(queue)))
    /\ queue' = RecvRest(queue)
    /\ slotWait' = 0
    /\ lastWrite' = "recv"
    /\ UNCHANGED <<rxLock, cb, bufLen, waited, rxAlive, sent>>
    /\ UNCHANGED mainVars
    /\ UNCHANGED threadVars

\* recv_timeout is blocked on the empty, connected channel: time passes
RecvWait ==
    /\ cb = "loop"
    /\ Len(data) < bufLen
    /\ queue = <<>>
    /\ txAlive
    /\ slotWait < Deadline
    /\ slotWait' = slotWait + 1
    /\ waited' = waited + 1
    /\ UNCHANGED <<rxLock, cb, bufLen, data, lastWrite, rxAlive, queue, sent, delivered>>
    /\ UNCHANGED mainVars
    /\ UNCHANGED threadVars

\* recv_timeout returns Err(Timeout): the slot gets the substitute
RecvTimeout ==
    /\ cb = "loop"
    /\ Len(data) < bufLen
    /\ queue = <<>>
    /\ txAlive
    /\ TimedOut(slotWait)
    /\ IF RecvErrPanics
       THEN /\ cb' = "idle"
            /\ rxLock' = "poisoned"
            /\ UNCHANGED <<data, lastWrite>>
       ELSE /\ data' = Append(data, ToDeviceSample(SilenceValue))
            /\ lastWrite' = "timeout"
            /\ UNCHANGED <<rxLock, cb>>
    /\ slotWait' = 0
    /\ UNCHANGED <<bufLen, waited, rxAlive, queue, sent, delivered>>
    /\ UNCHANGED mainVars
    /\ UNCHANGED threadVars

\* recv_timeout returns Err(Disconnected) at once: the slot gets the substitute
RecvDisconnected ==
    /\ cb = "loop"
    /\ Len(data) < bufLen
    /\ queue = <<>>
    /\ ~txAlive
    /\ IF RecvErrPanics
       THEN /\ cb' = "idle"
            /\ rxLock' = "poisoned"
            /\ UNCHANGED <<data, lastWrite>>
       ELSE /\ data' = Append(data, ToDeviceSample(SilenceValue))
            /\ lastWrite' = "disconnected"
            /\ UNCHANGED <<rxLock, cb>>
    /\ slotWait' = 0
    /\ UNCHANGED <<bufLen, waited, rxAlive, queue, sent, delivered>>
    /\ UNCHANGED mainVars
    /\ UNCHANGED threadVars

\* the loop over data is over: the closure returns, the guard unlocks
CallbackReturn ==
    /\ cb = "loop"
    /\ Len(data) = bufLen
    /\ cb' = "idle"
    /\ rxLock' = "free"
    /\ UNCHANGED <<bufLen, data, slotWait, waited, lastWrite, rxAlive, queue, sent, delivered>>
    /\ UNCHANGED mainVars
    /\ UNCHANGED threadVars

\* the steps inside one invocation
CallbackBody == RecvOk \/ RecvWait \/ RecvTimeout \/ RecvDisconnected \/ CallbackReturn

Callback == CallbackEnter \/ CallbackBody

Next ==
    \/ NewProducer
    \/ NewConsumer
    \/ DropProducer
    \/ DropConsumer
    \/ Open
    \/ LockTx
    \/ SendNext
    \/ ThreadExit
    \/ CallbackEnter
    \/ RecvOk
    \/ RecvWait
    \/ RecvTimeout
    \/ RecvDisconnected
    \/ CallbackReturn

Spec == Init /\ [][Next]_vars

(***************************************************************************)
(* A second AudioCable next to this one, reduced to the traffic of its     *)
(* channel.  Its file decodes to one sample whose scaled value differs     *)
(* from every value this Cable can send, so a value tells its origin.      *)
(***************************************************************************)
OtherItems == <<Scale(1)>>

\* what the channel a Cable's ends belong to holds
ChannelQueue(cable) == IF ChannelOf(cable) = "this" THEN queue ELSE other.queue

\* the other Cable's decode task: data_channel.send(s) of its next sample
SendOther ==
    /\ Len(other.sent) < Len(OtherItems)
    /\ LET s == OtherItems[Len(other.sent) + 1]
       IN  IF ChannelOf("other") = "this"
           THEN /\ rxAlive
                /\ queue' = Enqueue(queue, s)
                /\ other' = [other EXCEPT !.sent = Append(@, s)]
           ELSE /\ other' = [other EXCEPT !.queue = Enqueue(@, s), !.sent = Append(@, s)]
                /\ UNCHANGED queue
    /\ UNCHANGED <<file, pcMain, abortCause, source_type, producerAlive, preQueued>>
    /\ UNCHANGED <<rxAlive, sent, delivered>>
    /\ UNCHANGED threadVars
    /\ UNCHANGED cbVars

\* the other Cable's callback: recv_timeout returns Ok(s)
RecvOther ==
    /\ ChannelQueue("other") # <<>>
    /\ LET q == ChannelQueue("other")
       IN  IF ChannelOf("other") = "this"
           THEN /\ queue' = RecvRest(q)
                /\ other' = [other EXCEPT !.delivered = Append(@, ToDeviceSample(RecvValue(q)))]
           ELSE /\ other' = [other EXCEPT !.queue = RecvRest(q),
                                          !.delivered = Append(@, ToDeviceSample(RecvValue(q)))]
                /\ UNCHANGED queue
    /\ UNCHANGED <<file, pcMain, abortCause, source_type, producerAlive, preQueued>>
    /\ UNCHANGED <<rxAlive, sent, delivered>>
    /\ UNCHANGED threadVars
    /\ UNCHANGED cbVars

NextTwo ==
    \/ Next
    \/ SendOther
    \/ RecvOther

TwoCableSpec == Init /\ [][NextTwo]_vars

(***************************************************************************)
(* Specifications with the fairness the scheduling gives.                  *)
(***************************************************************************)
\* SourceType::from_local as AudioProducer::new calls it, on every identifier of Ids
ClassifySpec == InitClassify /\ [][NewProducer]_vars

\* the decode task is an OS thread: it keeps being scheduled while it can run
DecodeFairSpec == Spec /\ WF_vars(DecodeTask)

\* an invocation of the callback, once entered, keeps running
CallbackFairSpec == Spec /\ WF_vars(CallbackBody)

\* the decode task is scheduled fairly and the driver keeps invoking the callback
FairSpec == Spec /\ WF_vars(DecodeTask) /\ WF_vars(Callback)

(***************************************************************************)
(* Properties.                                                             *)
(***************************************************************************)
IsPrefix(s, t) == Len(s) <= Len(t) /\ \A i \in 1..Len(s) : s[i] = t[i]

AllZero(s) == \A i \in 1..Len(s) : s[i] = F32Zero

\* a step that writes one more slot of the current buffer
SlotWritten == Len(data') = Len(data) + 1

\* C1: the values the callback wrote from successful receives are, in every reachable
\* state, a prefix of the values the decode task sent, which are a prefix of the
\* decoder's items scaled in decoder order: nothing is reordered, duplicated or
\* skipped, whatever receives time out in between.
C1_DeliveredIsPrefix ==
    /\ IsPrefix(delivered, sent)
    /\ IsPrefix(sent, ScaledSeq(items))

\* C1 witness: two different samples were delivered in order, the second one in an
\* invocation whose first slot was a timeout.
C1_Witness ==
    /\ Len(delivered) = 2
    /\ delivered[1] # delivered[2]
    /\ delivered = ScaledSeq(items)
    /\ data = <<F32Zero, delivered[2]>>
    /\ delivered[2] # F32Zero

\* the Cable of a decodable source is constructed, stays alive and its file opened
Playing == pcMain = "constructed" /\ source_type = "FLAC" /\ thread # "panicked"

\* C2: for a Cable that keeps playing a decodable source of K = Len(items) samples,
\* eventually and from then on the decode task is done, exactly K slots have been
\* filled from the queue and the queue is empty; and every slot written once K slots
\* have been filled from the queue is zero and is not filled from the queue.
C2_EndToEnd ==
    /\ (<>[]Playing) =>
           <>[](thread = "done" /\ Len(delivered) = Len(items) /\ queue = <<>>)
    /\ [][(thread = "done" /\ Len(delivered) = Len(items) /\ SlotWritten)
             => (data' = Append(data, F32Zero) /\ delivered' = delivered)]_vars

\* C2 witness: both source samples were played and a later invocation is all silence.
C2_Witness ==
    /\ Playing
    /\ thread = "done"
    /\ Len(items) = 2
    /\ Len(delivered) = 2
    /\ cb = "idle"
    /\ data = <<F32Zero, F32Zero>>
    /\ lastWrite = "timeout"

\* C3 as stated: one invocation is blocked for at most one receive timeout (1 ms) in
\* total.
C3_TotalWaitOneDeadline == waited <= TicksPerMs

\* C3 amended: every receive is blocked for at most the receive timeout (1 ms), so an
\* invocation that has filled n slots has been blocked for at most n timeouts, plus
\* the wait of the receive in progress.
C3_WaitOneDeadlinePerSlot ==
    /\ slotWait <= TicksPerMs
    /\ waited <= Len(data) * TicksPerMs + slotWait

\* C3 witness: an invocation over two slots on a queue that is never written returned
\* after two full timeouts.
C3_Witness ==
    /\ source_type = "SOURCELESS"
    /\ cb = "idle"
    /\ bufLen = 2
    /\ Len(data) = 2
    /\ waited = 2 * TicksPerMs

\* C4: every invocation of the callback returns, whatever the decode task does; it
\* never waits for the lock of the receiver, and over a buffer of N slots it is
\* blocked for at most N deadlines.
C4_CallbackTerminates ==
    /\ (cb = "loop") ~> (cb = "idle")
    /\ [](cb = "idle" => rxLock = "free")
    /\ [](waited <= bufLen * Deadline)

\* C4 witness: an invocation returned after the longest wait while the decode task
\* had panicked.
C4_Witness ==
    /\ thread = "panicked"
    /\ cb = "idle"
    /\ bufLen = 2
    /\ Len(data) = bufLen
    /\ waited = bufLen * Deadline

\* C5: whenever a slot is filled without a successful receive, zero is written into
\* the next slot of the buffer; and for a source of kind SOURCELESS or UNSUPPORTED
\* every slot of every buffer is zero.
C5_UnderrunSilence ==
    /\ [][(SlotWritten /\ delivered' = delivered) => data' = Append(data, F32Zero)]_vars
    /\ [](source_type \in {"SOURCELESS", "UNSUPPORTED"} => AllZero(data))

\* C5 witness: a whole buffer of a sourceless Cable was filled by timeouts.
C5_Witness ==
    /\ source_type = "SOURCELESS"
    /\ cb = "idle"
    /\ Len(data) = 2
    /\ AllZero(data)
    /\ lastWrite = "timeout"

\* C6: once the decode task has exited after exhausting the decoder, what it enqueued
\* is the decoder's sequence scaled elementwise, same length, same order.
C6_EnqueuedIsScaledItems ==
    thread = "done" => (Len(sent) = Len(items) /\ sent = ScaledSeq(items))

\* C6 witness: the task exited after two different samples.
C6_Witness ==
    /\ thread = "done"
    /\ Len(items) = 2
    /\ items[1][1] = "Ok"
    /\ items[2][1] = "Ok"
    /\ items[1] # items[2]
    /\ Len(sent) = 2

\* C7: a decode error never panics the decode task; the value enqueued for an item
\* that is an error is the scaled value of 0; and a task that is done has enqueued
\* one value per decoder item.
C7_DecodeErrorIsSilence ==
    /\ threadPanic # "sample"
    /\ \A i \in 1..Len(sent) : items[i][1] = "Err" => sent[i] = ScaleOfZero
    /\ thread = "done" => Len(sent) = Len(items)

\* C7 witness: the decoder gave an error and then a sample, and the task is done.
C7_Witness ==
    /\ thread = "done"
    /\ Len(items) = 2
    /\ items[1][1] = "Err"
    /\ items[2][1] = "Ok"
    /\ Len(sent) = 2

\* C8: for a source classified SOURCELESS or UNSUPPORTED no decode task exists,
\* nothing is ever sent, the queue is empty, and the producer does not abort the
\* construction of the Cable.
C8_NoTaskNoSend ==
    (pcMain # "start" /\ from_local(file) \in {"SOURCELESS", "UNSUPPORTED"})
        => /\ source_type = from_local(file)
           /\ thread = "none"
           /\ sent = <<>>
           /\ queue = <<>>
           /\ abortCause # "source"

\* C8 witness: the Cable of an unsupported source is constructed and its callback
\* has filled a buffer.
C8_Witness ==
    /\ source_type = "UNSUPPORTED"
    /\ pcMain = "constructed"
    /\ cb = "idle"
    /\ Len(data) = 2

\* C9: once the open of the source file has failed, the construction of the Cable
\* does not complete and no callback runs: there is no state in which the open has
\* failed and the Cable is constructed or its callback is filling a buffer.
C9_OpenFailureIsFatal ==
    threadPanic = "no file" => (pcMain \in {"producer", "aborted"} /\ cb = "idle")

\* What the code does instead: the panic of expect("no file.") is confined to the
\* decode task, which ends before it takes the lock or sends anything; the caller is
\* not aborted by it, and the callback is not panicked and writes only zeros.
OpenFailureConfined ==
    threadPanic = "no file"
        => /\ thread = "panicked"
           /\ txLock = "free"
           /\ sent = <<>>
           /\ queue = <<>>
           /\ abortCause # "source"
           /\ cb # "panicked"
           /\ AllZero(data)

\* the open has failed, the Cable is constructed and the callback is filling a
\* buffer with silence
OpenFailureStillPlaying ==
    /\ threadPanic = "no file"
    /\ pcMain = "constructed"
    /\ cb = "loop"
    /\ Len(data) >= 1

\* C10: a decode task that was spawned ends (done or panicked); and once the receiver
\* is gone its next step at an enqueue is the panic of send().unwrap(), nothing more
\* is enqueued.
C10_DecodeTaskTerminates ==
    /\ (thread \in {"spawned", "opened", "loop"}) ~> (thread \in {"done", "panicked"})
    /\ [][(thread = "loop" /\ pos < Len(items) /\ ~rxAlive /\ thread' # thread)
             => (thread' = "panicked" /\ sent' = sent)]_vars
    /\ [][(~rxAlive) => sent' = sent]_vars

\* C10 witness: the task was ended by a send after the receiver was dropped, with
\* items left.
C10_Witness ==
    /\ thread = "panicked"
    /\ threadPanic = "send"
    /\ pos < Len(items)
    /\ pos >= 1

(***************************************************************************)
(* Properties of SourceType::from_local (under ClassifySpec).               *)
(***************************************************************************)
HasDot(s) == \E i \in 1..Len(s) : s[i] = "."

FirstDot(s) == CHOOSE i \in 1..Len(s) : s[i] = "." /\ \A j \in 1..(i - 1) : s[j] # "."

LastIndexOf(s, c) ==
    IF \E i \in 1..Len(s) : s[i] = c
    THEN CHOOSE i \in 1..Len(s) : s[i] = c /\ \A j \in (i + 1)..Len(s) : s[j] # c
    ELSE 0

\* the text between the first "." of s and the next "." (or the end of s)
FirstDotSegment(s) ==
    LET rest == SubSeq(s, FirstDot(s) + 1, Len(s))
    IN  IF HasDot(rest) THEN SubSeq(rest, 1, FirstDot(rest) - 1) ELSE rest

\* the final path segment of s, and what precedes it
FinalSegment(s) == SubSeq(s, LastIndexOf(s, "/") + 1, Len(s))
DirPart(s) == SubSeq(s, 1, LastIndexOf(s, "/"))

\* the trailing extension of s: the text after the last "." of the final path segment
TrailingExtension(s) ==
    LET seg == FinalSegment(s) IN SubSeq(seg, LastIndexOf(seg, ".") + 1, Len(seg))

IsFlac(e) ==
    /\ Len(e) = 4
    /\ e[1] \in {"f", "F"}
    /\ e[2] \in {"l", "L"}
    /\ e[3] \in {"a", "A"}
    /\ e[4] \in {"c", "C"}

Kinds == {"FLAC", "SOURCELESS", "UNSUPPORTED"}

\* what from_local(file) came to, once AudioProducer::new has called it
Classified == pcMain # "start"
Outcome == IF pcMain = "aborted" /\ abortCause = "source" THEN "PANIC" ELSE source_type

\* C12 as stated: an identifier that ends in ".flac" in any letter case is FLAC, one
\* whose final path segment has no "." is SOURCELESS, one with any other non-empty
\* trailing extension is UNSUPPORTED.
C12_ClassifyByTrailingExtension ==
    Classified =>
        /\ (HasDot(FinalSegment(file)) /\ IsFlac(TrailingExtension(file)))
               => Outcome = "FLAC"
        /\ ~HasDot(FinalSegment(file)) => Outcome = "SOURCELESS"
        /\ (HasDot(FinalSegment(file)) /\ TrailingExtension(file) # <<>>
                /\ ~IsFlac(TrailingExtension(file)))
               => Outcome = "UNSUPPORTED"

\* C12 amended: the extension is the text between the first "." of the whole
\* identifier and the next "." (or the end): FLAC when it is "flac" in any letter
\* case, SOURCELESS when it is empty, UNSUPPORTED otherwise; an identifier without
\* "." makes from_local panic.
C12_ClassifyByFirstDotSegment ==
    Classified =>
        IF HasDot(file)
        THEN /\ IsFlac(FirstDotSegment(file)) => Outcome = "FLAC"
             /\ FirstDotSegment(file) = <<>> => Outcome = "SOURCELESS"
             /\ (FirstDotSegment(file) # <<>> /\ ~IsFlac(FirstDotSegment(file)))
                    => Outcome = "UNSUPPORTED"
        ELSE Outcome = "PANIC"

\* C12 witness: "a.FlAC" has been classified FLAC.
C12_Witness ==
    /\ file = <<"a", ".", "F", "l", "A", "C">>
    /\ Outcome = "FLAC"

\* C13 as stated: every identifier is classified as exactly one of the three kinds,
\* never a panic.
C13_ClassifyTotal == Classified => Outcome \in Kinds

\* C13 amended: every identifier that contains a "." is classified as exactly one of
\* the three kinds and AudioProducer::new goes on; an identifier without "." (the
\* empty string included) panics the caller.
C13_ClassifyTotalOnDotted ==
    Classified =>
        IF HasDot(file)
        THEN Outcome \in Kinds /\ pcMain = "producer" /\ abortCause = "none"
        ELSE Outcome = "PANIC" /\ source_type = "unset"

\* C13 witness: an identifier that ends in "." has been classified.
C13_Witness ==
    /\ file = <<"x", "/", "a", ".">>
    /\ Outcome = "SOURCELESS"

\* C14: from_local panics the caller when the identifier is empty or has no ".", and
\* then no producer exists, the channel is dropped unused and no step of the Cable
\* is possible any more; and SOURCELESS is returned only when the text after the
\* first "." (up to the next ".") is empty.
C14_FailFastWithoutExtension ==
    Classified =>
        /\ (file = <<>> \/ ~HasDot(file))
               => /\ pcMain = "aborted"
                  /\ abortCause = "source"
                  /\ ~producerAlive
                  /\ thread = "none"
                  /\ ~rxAlive
                  /\ queue = <<>>
                  /\ ~ENABLED Next
        /\ Outcome = "SOURCELESS" => (HasDot(file) /\ FirstDotSegment(file) = <<>>)

\* C14 witness: the empty identifier has aborted the caller.
C14_Witness ==
    /\ file = <<>>
    /\ pcMain = "aborted"
    /\ abortCause = "source"

C15_CallbackNeverPanics ==
    /\ cb # "panicked"
    /\ rxLock # "poisoned"
    /\ thread = "panicked" => rxLock \in {"free", "held"}

\* C15 witness: the decode task has panicked and the callback, entered after that,
\* holds the lock of the Receiver and has filled a slot.
C15_Witness ==
    /\ thread = "panicked"
    /\ cb = "loop"
    /\ rxLock = "held"
    /\ Len(data) >= 1

\* C16: while the Cable is constructed and not being dropped the Sender exists, also
\* after the decode task is done, so every slot filled without a successful receive
\* comes from a timeout, never from a disconnect.
C16_NoEndOfStreamSignal ==
    /\ [](pcMain = "constructed" => txAlive)
    /\ [][(pcMain = "constructed" /\ SlotWritten /\ delivered' = delivered)
             => lastWrite' = "timeout"]_vars
    /\ [](pcMain = "constructed" => lastWrite # "disconnected")

\* C16 witness: the decode task is done, the queue is drained and the last slot of a
\* buffer of the live Cable was a timeout.
C16_Witness ==
    /\ pcMain = "constructed"
    /\ thread = "done"
    /\ Len(items) >= 1
    /\ Len(delivered) = Len(items)
    /\ Len(data) >= 1
    /\ lastWrite = "timeout"

\* C17 as stated: after the Cable is dropped with items left, the decode task is not
\* stopped: it never ends before the decoder is exhausted.
C17_TaskRunsToExhaustion ==
    (pcMain = "dropped" /\ thread \in {"done", "panicked"} /\ threadPanic # "no file")
        => pos = Len(items)

\* C17 amended: the drop itself does not touch the decode task, but once the Cable
\* is dropped nothing more is taken from the decoder or enqueued, and the next step
\* of a task that has items left is the panic of send().unwrap().
C17_DropStopsTaskAtNextSend ==
    /\ [][(pcMain' # pcMain /\ pcMain' \in {"dropping", "dropped"})
             => (thread' = thread /\ threadPanic' = threadPanic /\ pos' = pos)]_vars
    /\ [][pcMain = "dropped" => (pos' = pos /\ sent' = sent /\ queue' = queue)]_vars
    /\ [][(pcMain = "dropped" /\ thread = "loop" /\ pos < Len(items) /\ thread' # thread)
             => (thread' = "panicked" /\ threadPanic' = "send")]_vars

\* C17 witness: the Cable was dropped with items left and the task has panicked at
\* its send.
C17_Witness ==
    /\ pcMain = "dropped"
    /\ thread = "panicked"
    /\ threadPanic = "send"
    /\ pos < Len(items)

\* C20: the Mutex of the Sender is held exactly while the decode task is in its loop,
\* the Mutex of the Receiver exactly during an invocation of the callback; neither
\* lock() ever has to wait: a task that is about to lock can lock, and the callback
\* can be entered whenever the stream exists and no invocation is running.
C20_NoLockContention ==
    /\ txLock = "held" <=> thread = "loop"
    /\ rxLock = "held" <=> cb = "loop"
    /\ thread = "opened" => ENABLED LockTx
    /\ (streamAlive /\ cb = "idle") => ENABLED CallbackEnter

\* C20 witness: both locks are held at once, each by its own context.
C20_Witness ==
    /\ txLock = "held"
    /\ rxLock = "held"
    /\ thread = "loop"
    /\ cb = "loop"
    /\ pos >= 1
    /\ Len(data) >= 1

(***************************************************************************)
(* Order of construction.                                                  *)
(***************************************************************************)
\* C19: the decode task exists only once the producer was made, and the callback
\* does nothing before the consumer was made, which is after the producer; what the
\* decode task sent before the callback was registered is all in the channel at the
\* registration, and those values are, in the order sent, the first ones the
\* callback receives.
C19_EarlySamplesKept ==
    /\ pcMain = "start" => (thread = "none" /\ sent = <<>>)
    /\ pcMain \in {"start", "producer"} =>
           (cb = "idle" /\ data = <<>> /\ delivered = <<>> /\ queue = sent)
    /\ preQueued <= Len(sent)
    /\ \A i \in 1..preQueued :
           /\ i <= Len(delivered) => delivered[i] = sent[i]
           /\ rxAlive => /\ i <= Len(delivered) + Len(queue)
                         /\ (delivered \o queue)[i] = sent[i]

\* C19 witness: two different samples were sent before the callback was registered,
\* and the first invocation of the callback has received both, in the order sent.
C19_Witness ==
    /\ preQueued = 2
    /\ pcMain = "constructed"
    /\ sent[1] # sent[2]
    /\ cb = "loop"
    /\ waited = 0
    /\ data = <<sent[1], sent[2]>>
    /\ delivered = data

(***************************************************************************)
(* Ownership of the two ends of a channel.                                 *)
(***************************************************************************)
Values(q) == {q[i] : i \in 1..Len(q)}

\* C11: every change of this Cable's channel is either a send by its decode task,
\* which holds the lock of the Sender, or a receive by its callback, which holds the
\* lock of the Receiver; and with a second Cable alive, what is in a Cable's channel
\* and what its callback has received was sent by that Cable's own decode task: no
\* value crosses from one Cable to the other.
C11_OwnEndsOnly ==
    /\ [][queue' # queue =>
             \/ /\ thread = "loop" /\ txLock = "held"
                /\ Len(sent') = Len(sent) + 1
                /\ queue' = Append(queue, sent'[Len(sent')])
                /\ delivered' = delivered
             \/ /\ cb = "loop" /\ rxLock = "held"
                /\ Len(delivered') = Len(delivered) + 1
                /\ queue = <<delivered'[Len(delivered')]>> \o queue'
                /\ sent' = sent]_vars
    /\ [](Values(queue) \cup Values(delivered) \subseteq Values(sent))
    /\ [](Values(other.queue) \cup Values(other.delivered) \subseteq Values(other.sent))
    /\ [](Values(sent) \cap Values(other.sent) = {})
    /\ [](rxAlive => sent = delivered \o queue)
    /\ [](other.sent = other.delivered \o other.queue)

\* C11 witness: both Cables are alive, both channels hold a value at once, and this
\* Cable's callback has already received a value of its own.
C11_Witness ==
    /\ pcMain = "constructed"
    /\ thread = "loop"
    /\ cb = "loop"
    /\ Len(delivered) >= 1
    /\ queue # <<>>
    /\ other.queue = OtherItems

====
